---- MODULE Spec2Model ----
(***************************************************************************)
(* A model of the poll list of the voting application                      *)
(* (src/src/components/PollList.tsx): browser clients, each holding one    *)
(* PollList component, against one shared backend (the votes and polls     *)
(* tables).  Every backend request is one atomic backend step that happens *)
(* between the request and the delivery of its response; the code that     *)
(* runs between two awaits of a handler is one step.                       *)
(***************************************************************************)
EXTENDS Naturals, Integers, FiniteSets, Sequences, Bags, TLC

\* ---------------------------------------------------------------- universe

Null == "null"

Clients == {"c1", "c2"}
Users == {"u1", "u2"}
Polls == {"p1", "p2"}
\* Poll p1 has two options and poll p2 one (option ids are unique across polls).
OptionsOf(p) == IF p = "p1" THEN {<<p, "x">>, <<p, "y">>} ELSE {<<p, "x">>}

\* Notification-, mount- and retry-started fetchPolls calls in flight per client.
MaxFetches == 1
\* The clock runs from 0 to MaxTime (milliseconds since the epoch).
MaxTime == 1

\* The environment stops inserting once the votes table holds MaxVotes rows.
MaxVotes == 2

\* The last step reported nothing.
NoOutcome == <<Null, Null>>

\* The toasts of handleVote.
ToastSignIn == "Please sign in to vote"
ToastAlready == "You have already voted on this poll"
ToastFailed == "Failed to record vote. Please try again."
ToastSuccess == "Vote recorded successfully!"

\* handleVote's silent return (no toast).
Ignored == "ignored"
\* handleVote's return after its await of fetchPolls (no toast).
Returned == "returned"

\* The error panel's message.
ErrorText == "Failed to load polls. Please try again."

\* The toasts of App.
ToastInitFailed == "Failed to initialize authentication"
ToastProfileFailed == "Failed to load user profile"
ToastSignedOut == "Successfully signed out"
ToastSignOutFailed == "Failed to sign out. Please try again."

\* The auth-state-change notifications App is told of: the event's name with
\* the session's user, or Null for no session.
AuthEvents ==
    {<<"SIGNED_OUT", Null>>, <<"INITIAL_SESSION", Null>>}
        \cup ({"SIGNED_IN", "TOKEN_REFRESHED"} \X Users)

\* App's calls suspended at an await, per client (getSession, profile loads,
\* signOut).
MaxLoads == 1

VARIABLES
    votes,             \* backend table votes: rows [poll_id, option_id, user_id]
    pollsTable,        \* backend table polls: poll id -> [ends_at, is_active]
    now,               \* the clock read by new Date()
    mounted,           \* per client: is its PollList mounted (effect run, subscribed)
    user,              \* session store, per client: the user id or Null
    isAdmin,           \* session store, per client: the administrator flag
    polls,             \* useState polls, per client: set of fetched poll records
    loading,           \* useState loading
    error,             \* useState error: Null or the message
    votingInProgress,  \* useState votingInProgress: Null or a poll id
    fetches,           \* per client: bag of fetchPolls calls awaiting their response
    subs,              \* per client: set of handleVote calls suspended at an await
    outcome,           \* what the last step reported: <<client, toast text>>,
                       \* <<client, Ignored>> for a silent return, or NoOutcome
    appLoading,        \* App's useState loading, per client
    auths,             \* per client: bag of App's calls suspended at an await
    lastAuth,          \* history, per client: what last told App who is signed
                       \* in: an auth event's name, "getSession", or Null
    served             \* history, per client: the rows of the latest composite
                       \* read the backend answered ({} before the first)

vars == <<votes, pollsTable, now, mounted, user, isAdmin, polls, loading, error,
          votingInProgress, fetches, subs, outcome, appLoading, auths, lastAuth,
          served>>

appVars == <<appLoading, auths, lastAuth>>

backendVars == <<votes, pollsTable>>
sessionVars == <<mounted, user, isAdmin>>

\* ---------------------------------------------------------------- backend

\* The composite read without the nested votes: polls(*, options(*)).
SnapshotWithoutVotes ==
    { [id |-> p,
       ends_at |-> pollsTable[p].ends_at,
       is_active |-> pollsTable[p].is_active,
       options |-> [o \in OptionsOf(p) |-> {}]]
      : p \in Polls }

\* The composite read polls(*, options(*, votes(*))): every poll with its
\* options and, under each option, the votes that reference it.
Snapshot ==
    { [id |-> p,
       ends_at |-> pollsTable[p].ends_at,
       is_active |-> pollsTable[p].is_active,
       options |-> [o \in OptionsOf(p) |->
                       {v.user_id : v \in {w \in votes : w.option_id = o}}]]
      : p \in Polls }

\* The votes of user u on poll p that the backend holds.
ExistingVotes(p, u) == {v \in votes : v.poll_id = p /\ v.user_id = u}

\* No uniqueness constraint: every row is stored.
InsertUnconstrained(row) == TRUE

\* The constraint put on the whole row (poll_id, option_id, user_id).
InsertUniqueRow(row) == row \notin votes

\* The uniqueness constraint on (poll_id, user_id): may this row be stored?
InsertAllowed(row) ==
    ~\E v \in votes : v.poll_id = row.poll_id /\ v.user_id = row.user_id

\* ---------------------------------------------------------------- view

hasVoted(c, poll) ==
    /\ user[c] # Null
    /\ \E o \in DOMAIN poll.options : user[c] \in poll.options[o]

\* The comparison with >= in place of >.
isPollActiveInclusive(poll, t) == poll.ends_at >= t /\ poll.is_active

\* new Date(poll.ends_at) > new Date() && poll.is_active, with both dates as
\* their millisecond values.
isPollActive(poll, t) == poll.ends_at > t /\ poll.is_active

\* App renders PollList only when a user is present, the sign-in form
\* otherwise.
AppShowsList(c) == mounted[c] /\ user[c] # Null

\* What the client shows: PollList renders by its chain of early returns.
View(c) ==
    IF ~AppShowsList(c) THEN "auth"
    ELSE IF loading[c] THEN "loading"
    ELSE IF error[c] # Null THEN "error"
    ELSE IF Cardinality(polls[c]) = 0 THEN "empty"
    ELSE "list"

\* Is this poll's card on the screen?
ShowsPoll(c, poll) == View(c) = "list" /\ poll \in polls[c]

\* The disabled attribute of every option button of a poll's card.
Disabled(c, poll) ==
    \/ user[c] = Null
    \/ hasVoted(c, poll)
    \/ ~isPollActive(poll, now)
    \/ votingInProgress[c] = poll.id

\* A click on an option button of the poll calls handleVote.
ButtonEnabled(c, poll) == ShowsPoll(c, poll) /\ ~Disabled(c, poll)

\* The tally without its condition.
ShowsCountsAlways(c, poll) == ShowsPoll(c, poll)

\* The "n votes" tally inside every option button of the card.
ShowsCounts(c, poll) == ShowsPoll(c, poll) /\ (isAdmin[c] \/ hasVoted(c, poll))

\* The Results bar chart of the card.
ShowsChart(c, poll) ==
    /\ ShowsPoll(c, poll)
    /\ (isAdmin[c] \/ hasVoted(c, poll))
    /\ Cardinality(DOMAIN poll.options) > 0

\* The Active / Ended badge of the card.
Badge(c, poll) == IF isPollActive(poll, now) THEN "Active" ELSE "Ended"

\* ---------------------------------------------------------------- fetchPolls

Fetch(st, data, awaited) == [st |-> st, data |-> data, awaited |-> awaited]

One(f) == SetToBag({f})

\* The same without setError(null).
StartFetchKeepError(c, awaited) ==
    /\ loading' = [loading EXCEPT ![c] = TRUE]
    /\ UNCHANGED error
    /\ fetches' = [fetches EXCEPT ![c] = @ (+) One(Fetch("sent", {}, awaited))]

\* fetchPolls up to its await: setLoading(true), setError(null), the request.
StartFetch(c, awaited) ==
    /\ loading' = [loading EXCEPT ![c] = TRUE]
    /\ error' = [error EXCEPT ![c] = Null]
    /\ fetches' = [fetches EXCEPT ![c] = @ (+) One(Fetch("sent", {}, awaited))]

InFlight(c) == BagCardinality(fetches[c])

\* The subscription that is never released.
SubscribedForever(c) == TRUE

\* The channel subscription of the effect: made on mount, released by the
\* effect's cleanup on unmount.
Subscribed(c) == mounted[c]

\* The backend raises a change notification on the polls or the votes stream:
\* the subscribed callback runs, () => fetchPolls(); with the subscription
\* released no callback runs and nothing changes.
Notification(c) ==
    /\ InFlight(c) < MaxFetches
    /\ IF Subscribed(c)
       THEN /\ StartFetch(c, FALSE)
            /\ outcome' = NoOutcome
       ELSE UNCHANGED <<loading, error, fetches, outcome>>
    /\ UNCHANGED <<backendVars, now, appVars, served, sessionVars, polls,
                   votingInProgress, subs>>

\* The component is unmounted: the effect's cleanup runs,
\* pollsSubscription.unsubscribe().  Requests in flight are not aborted; the
\* state cells they write to are no longer rendered (View is "auth").
Unmount(c) ==
    /\ mounted[c]
    /\ mounted' = [mounted EXCEPT ![c] = FALSE]
    /\ outcome' = NoOutcome
    /\ UNCHANGED <<backendVars, now, appVars, served, user, isAdmin, polls,
                   loading, error, votingInProgress, fetches, subs>>

\* The error panel's Try Again button: onClick fetchPolls.
Retry(c) ==
    /\ mounted[c]
    /\ View(c) = "error"
    /\ InFlight(c) < MaxFetches
    /\ StartFetch(c, FALSE)
    /\ outcome' = NoOutcome
    /\ UNCHANGED <<backendVars, now, appVars, served, sessionVars, polls,
                   votingInProgress, subs>>

\* The backend serves one composite read: the rows as they are now, or an error.
BackendRead(c) ==
    /\ \E f \in BagToSet(fetches[c]) :
        /\ f.st = "sent"
        /\ \E g \in {Fetch("ok", Snapshot, f.awaited), Fetch("err", {}, f.awaited)} :
            /\ fetches' = [fetches EXCEPT ![c] = (@ (-) One(f)) (+) One(g)]
            /\ served' = IF g.st = "ok" THEN [served EXCEPT ![c] = g.data]
                                        ELSE served
    /\ outcome' = NoOutcome
    /\ UNCHANGED <<backendVars, now, appVars, sessionVars, polls, loading, error,
                   votingInProgress, subs>>

\* The same without the finally block: handleVote returns, the marker stays.
FinishVoteKeepMarker(c, awaited) ==
    IF awaited
    THEN /\ UNCHANGED votingInProgress
         /\ subs' = [subs EXCEPT ![c] = {a \in @ : a.pc # "refetch"}]
         /\ outcome' = <<c, Returned>>
    ELSE /\ UNCHANGED <<votingInProgress, subs>>
         /\ outcome' = NoOutcome

\* The rest of handleVote once its await of fetchPolls returns: finally.
FinishVote(c, awaited) ==
    IF awaited
    THEN /\ votingInProgress' = [votingInProgress EXCEPT ![c] = Null]
         /\ subs' = [subs EXCEPT ![c] = {a \in @ : a.pc # "refetch"}]
         /\ outcome' = <<c, Returned>>
    ELSE /\ UNCHANGED <<votingInProgress, subs>>
         /\ outcome' = NoOutcome

\* fetchPolls after its await: setPolls or setError, then setLoading(false).
FetchComplete(c) ==
    /\ \E f \in BagToSet(fetches[c]) :
        /\ f.st # "sent"
        /\ fetches' = [fetches EXCEPT ![c] = @ (-) One(f)]
        /\ IF f.st = "ok"
           THEN polls' = [polls EXCEPT ![c] = f.data] /\ UNCHANGED error
           ELSE error' = [error EXCEPT ![c] = ErrorText] /\ UNCHANGED polls
        /\ loading' = [loading EXCEPT ![c] = FALSE]
        /\ FinishVote(c, f.awaited)
    /\ UNCHANGED <<backendVars, now, appVars, served, sessionVars>>

\* ---------------------------------------------------------------- handleVote

\* A handleVote call suspended at an await.  user_id is the user of the render
\* the handler closed over.  History: had, whether that user had a vote on the
\* poll in the backend when the call was made; pre, the votes table right
\* before this call's insert succeeded ({} until then).
Submission(pc, p, o, u, had, pre) ==
    [pc |-> pc, poll_id |-> p, option_id |-> o, user_id |-> u,
     had |-> had, pre |-> pre]

\* The two filters with their values swapped: matches nothing.
checkQuerySwapped(p, u) == {v \in votes : v.poll_id = u /\ v.user_id = p}

\* The existence check's query: votes of this user on this poll.
checkQuery(p, u) == {v \in votes : v.poll_id = p /\ v.user_id = u}

\* The guard left out: every call goes on to the backend.
BusyNever(c) == FALSE

\* if (votingInProgress) return;
Busy(c) == votingInProgress[c] # Null

\* handleVote without its sign-in check.
HandleVoteNoSignInCheck(c, p, o) ==
    /\ mounted[c]
    /\ IF Busy(c)
       THEN /\ outcome' = <<c, Ignored>>
            /\ UNCHANGED <<votingInProgress, subs>>
       ELSE /\ votingInProgress' = [votingInProgress EXCEPT ![c] = p]
            /\ subs' = [subs EXCEPT ![c] = @ \cup
                          {Submission("check", p, o, user[c],
                                      ExistingVotes(p, user[c]) # {}, {})}]
            /\ outcome' = NoOutcome
    /\ UNCHANGED <<backendVars, now, appVars, served, sessionVars, polls, loading,
                   error, fetches>>

\* handleVote counting the vote in the poll collection itself before the
\* backend has answered.
HandleVoteOptimistic(c, p, o) ==
    /\ mounted[c]
    /\ IF user[c] = Null
       THEN /\ outcome' = <<c, ToastSignIn>>
            /\ UNCHANGED <<votingInProgress, subs, polls>>
       ELSE IF Busy(c)
       THEN /\ outcome' = <<c, Ignored>>
            /\ UNCHANGED <<votingInProgress, subs, polls>>
       ELSE /\ votingInProgress' = [votingInProgress EXCEPT ![c] = p]
            /\ subs' = [subs EXCEPT ![c] = @ \cup
                          {Submission("check", p, o, user[c],
                                      ExistingVotes(p, user[c]) # {}, {})}]
            /\ polls' = [polls EXCEPT ![c] =
                  {[q EXCEPT !.options =
                        [x \in DOMAIN q.options |->
                            IF x = o THEN q.options[x] \cup {user[c]}
                                     ELSE q.options[x]]] : q \in @}]
            /\ outcome' = NoOutcome
    /\ UNCHANGED <<backendVars, now, appVars, served, sessionVars, loading, error,
                   fetches>>

\* handleVote(pollId, optionId) up to its first await.
HandleVote(c, p, o) ==
    /\ mounted[c]
    /\ IF user[c] = Null
       THEN /\ outcome' = <<c, ToastSignIn>>
            /\ UNCHANGED <<votingInProgress, subs>>
       ELSE IF Busy(c)
       THEN /\ outcome' = <<c, Ignored>>
            /\ UNCHANGED <<votingInProgress, subs>>
       ELSE /\ votingInProgress' = [votingInProgress EXCEPT ![c] = p]
            /\ subs' = [subs EXCEPT ![c] = @ \cup
                          {Submission("check", p, o, user[c],
                                      ExistingVotes(p, user[c]) # {}, {})}]
            /\ outcome' = NoOutcome
    /\ UNCHANGED <<backendVars, now, appVars, served, sessionVars, polls, loading,
                   error, fetches>>

\* The same without the finally block: the marker stays set.
EndVoteKeepMarker(c, a, msg) ==
    /\ outcome' = <<c, msg>>
    /\ UNCHANGED votingInProgress
    /\ subs' = [subs EXCEPT ![c] = @ \ {a}]

\* A click on an enabled option button on the screen: onClick calls
\* handleVote(poll.id, option.id).
Click(c, p, o) ==
    /\ \E poll \in polls[c] : poll.id = p /\ ButtonEnabled(c, poll)
    /\ HandleVote(c, p, o)

\* handleVote reached with no user present.  No button on the screen leads
\* here; the call exercises the handler's own sign-in check.
CallSignedOut(c, p, o) ==
    /\ user[c] = Null
    /\ HandleVote(c, p, o)

\* catch and finally of handleVote, or its return from inside try: the toast,
\* then setVotingInProgress(null).
EndVote(c, a, msg) ==
    /\ outcome' = <<c, msg>>
    /\ votingInProgress' = [votingInProgress EXCEPT ![c] = Null]
    /\ subs' = [subs EXCEPT ![c] = @ \ {a}]

\* The same with the check's result not looked at: on to the insert unless
\* the check failed.
VoteCheckAnyResult(c) ==
    /\ \E a \in subs[c] :
        /\ a.pc = "check"
        /\ \/ EndVote(c, a, ToastFailed)
           \/ /\ subs' = [subs EXCEPT ![c] = (@ \ {a}) \cup
                            {[a EXCEPT !.pc = "insert"]}]
              /\ outcome' = NoOutcome
              /\ UNCHANGED votingInProgress
    /\ UNCHANGED <<backendVars, now, appVars, served, sessionVars, polls, loading,
                   error, fetches>>

\* The existence check answers: the select with maybeSingle() fails (it also
\* does when it matches more than one row), finds the vote, or finds none.
VoteCheck(c) ==
    /\ \E a \in subs[c] :
        /\ a.pc = "check"
        /\ LET existingVote == checkQuery(a.poll_id, a.user_id) IN
           \/ EndVote(c, a, ToastFailed)
           \/ /\ Cardinality(existingVote) = 1
              /\ EndVote(c, a, ToastAlready)
           \/ /\ existingVote = {}
              /\ subs' = [subs EXCEPT ![c] = (@ \ {a}) \cup
                            {[a EXCEPT !.pc = "insert"]}]
              /\ outcome' = NoOutcome
              /\ UNCHANGED votingInProgress
    /\ UNCHANGED <<backendVars, now, appVars, served, sessionVars, polls, loading,
                   error, fetches>>

\* The insert answers: an error and no row stored, or the row stored; on
\* success the toast, then fetchPolls() up to its await.
VoteInsert(c) ==
    /\ \E a \in subs[c] :
        /\ a.pc = "insert"
        /\ LET row == [poll_id |-> a.poll_id, option_id |-> a.option_id,
                       user_id |-> a.user_id] IN
           \/ /\ EndVote(c, a, ToastFailed)
              /\ UNCHANGED <<votes, loading, error, fetches>>
           \/ /\ InsertAllowed(row)
              /\ votes' = votes \cup {row}
              /\ outcome' = <<c, ToastSuccess>>
              /\ StartFetch(c, TRUE)
              /\ subs' = [subs EXCEPT ![c] = (@ \ {a}) \cup
                            {[a EXCEPT !.pc = "refetch", !.pre = votes]}]
              /\ UNCHANGED votingInProgress
    /\ UNCHANGED <<pollsTable, now, appVars, served, sessionVars, polls>>

\* ---------------------------------------------------------------- environment

\* The insert of a handleVote call of some client instance that is not
\* modelled step by step reaches the backend: stored unless the constraint
\* rejects it.
OtherInsert(u, p, o) ==
    /\ Cardinality(votes) < MaxVotes
    /\ InsertAllowed([poll_id |-> p, option_id |-> o, user_id |-> u])
    /\ votes' = votes \cup {[poll_id |-> p, option_id |-> o, user_id |-> u]}
    /\ outcome' = NoOutcome
    /\ UNCHANGED <<pollsTable, now, appVars, served, sessionVars, polls, loading,
                   error, votingInProgress, fetches, subs>>

Tick ==
    /\ now < MaxTime
    /\ now' = now + 1
    /\ outcome' = NoOutcome
    /\ UNCHANGED <<backendVars, appVars, served, sessionVars, polls, loading,
                   error, votingInProgress, fetches, subs>>

\* ---------------------------------------------------------------- App

\* Backend table profiles: is_admin of the user's row.
ProfileIsAdmin(u) == u = "u1"

\* The session store's mutators.
reset(c) ==
    /\ user' = [user EXCEPT ![c] = Null]
    /\ isAdmin' = [isAdmin EXCEPT ![c] = FALSE]

setUser(c, u) == user' = [user EXCEPT ![c] = u]

setIsAdmin(c, b) == isAdmin' = [isAdmin EXCEPT ![c] = b]

\* A call of App suspended at an await: op is "init" (initializeAuth), "event"
\* (the onAuthStateChange callback) or "signOut" (handleSignOut); at is the
\* request awaited; uid the session's user the profile is loaded for.
Auth(op, at, uid) == [op |-> op, at |-> at, uid |-> uid]

AuthsInFlight(c) == BagCardinality(auths[c])

\* App renders again with the store and loading flag of the next state: the
\* poll list is on the page exactly when loading is false and a user is
\* present.  A poll list that appears is a new component (its initial state,
\* its effect's fetchPolls() up to the await); one that disappears is
\* unmounted.  A new poll list is followed once the requests of the previous
\* one have returned.
RenderList(c) ==
    LET shown == ~appLoading'[c] /\ user'[c] # Null IN
    IF shown = mounted[c]
    THEN UNCHANGED <<mounted, polls, loading, error, votingInProgress, fetches>>
    ELSE IF shown
    THEN /\ fetches[c] = EmptyBag /\ subs[c] = {}
         /\ mounted' = [mounted EXCEPT ![c] = TRUE]
         /\ polls' = [polls EXCEPT ![c] = {}]
         /\ loading' = [loading EXCEPT ![c] = TRUE]
         /\ error' = [error EXCEPT ![c] = Null]
         /\ votingInProgress' = [votingInProgress EXCEPT ![c] = Null]
         /\ fetches' = [fetches EXCEPT ![c] = One(Fetch("sent", {}, FALSE))]
    ELSE /\ mounted' = [mounted EXCEPT ![c] = FALSE]
         /\ UNCHANGED <<polls, loading, error, votingInProgress, fetches>>

\* What no step of App touches.
appFrame == <<votes, pollsTable, now, subs, served>>

\* initializeAuth: getSession fails (sessionError thrown): catch, finally.
SessionFailed(c, a) ==
    /\ a.at = "getSession"
    /\ reset(c)
    /\ outcome' = <<c, ToastInitFailed>>
    /\ appLoading' = [appLoading EXCEPT ![c] = FALSE]
    /\ auths' = [auths EXCEPT ![c] = @ (-) One(a)]
    /\ UNCHANGED lastAuth

\* initializeAuth: getSession answers with no session: finally.
SessionNone(c, a) ==
    /\ a.at = "getSession"
    /\ outcome' = NoOutcome
    /\ appLoading' = [appLoading EXCEPT ![c] = FALSE]
    /\ auths' = [auths EXCEPT ![c] = @ (-) One(a)]
    /\ lastAuth' = [lastAuth EXCEPT ![c] = "getSession"]
    /\ UNCHANGED <<user, isAdmin>>

\* initializeAuth: getSession answers with the session of user u:
\* setUser(session.user), then the profile load up to its await.
SessionFound(c, a, u) ==
    /\ a.at = "getSession"
    /\ setUser(c, u)
    /\ outcome' = NoOutcome
    /\ auths' = [auths EXCEPT ![c] = (@ (-) One(a)) (+) One(Auth("init", "profile", u))]
    /\ lastAuth' = [lastAuth EXCEPT ![c] = "getSession"]
    /\ UNCHANGED <<isAdmin, appLoading>>

\* The answer to getSession reaches initializeAuth.
SessionReply(c) ==
    /\ \E a \in BagToSet(auths[c]) :
        \/ SessionFailed(c, a)
        \/ SessionNone(c, a)
        \/ \E u \in Users : SessionFound(c, a, u)
    /\ RenderList(c)
    /\ UNCHANGED appFrame

\* The catch without reset(): the toast only.
ProfileFailedNoReset(c, a) ==
    /\ a.at = "profile"
    /\ UNCHANGED <<user, isAdmin>>
    /\ auths' = [auths EXCEPT ![c] = @ (-) One(a)]
    /\ IF a.op = "init"
       THEN /\ outcome' = <<c, ToastInitFailed>>
            /\ appLoading' = [appLoading EXCEPT ![c] = FALSE]
       ELSE /\ outcome' = <<c, ToastProfileFailed>>
            /\ UNCHANGED appLoading
    /\ UNCHANGED lastAuth

\* A profile load fails (profileError thrown): the catch of initializeAuth
\* and its finally, or the catch of the auth callback.
ProfileFailed(c, a) ==
    /\ a.at = "profile"
    /\ reset(c)
    /\ auths' = [auths EXCEPT ![c] = @ (-) One(a)]
    /\ IF a.op = "init"
       THEN /\ outcome' = <<c, ToastInitFailed>>
            /\ appLoading' = [appLoading EXCEPT ![c] = FALSE]
       ELSE /\ outcome' = <<c, ToastProfileFailed>>
            /\ UNCHANGED appLoading
    /\ UNCHANGED lastAuth

\* A profile load answers: setIsAdmin(profile?.is_admin ?? false); in
\* initializeAuth the finally follows.
ProfileLoaded(c, a) ==
    /\ a.at = "profile"
    /\ setIsAdmin(c, ProfileIsAdmin(a.uid))
    /\ outcome' = NoOutcome
    /\ auths' = [auths EXCEPT ![c] = @ (-) One(a)]
    /\ appLoading' = IF a.op = "init" THEN [appLoading EXCEPT ![c] = FALSE]
                                      ELSE appLoading
    /\ UNCHANGED <<user, lastAuth>>

\* The answer to a profile load reaches the call that awaits it.
ProfileReply(c) ==
    /\ \E a \in BagToSet(auths[c]) : ProfileFailed(c, a) \/ ProfileLoaded(c, a)
    /\ RenderList(c)
    /\ UNCHANGED appFrame

\* The onAuthStateChange callback up to its await (or to its end).
AuthEvent(c, event, su) ==
    /\ lastAuth' = [lastAuth EXCEPT ![c] = event]
    /\ outcome' = NoOutcome
    /\ IF event = "SIGNED_OUT"
       THEN reset(c) /\ UNCHANGED auths
       ELSE IF su # Null
       THEN /\ AuthsInFlight(c) < MaxLoads
            /\ setUser(c, su)
            /\ auths' = [auths EXCEPT ![c] = @ (+) One(Auth("event", "profile", su))]
            /\ UNCHANGED isAdmin
       ELSE reset(c) /\ UNCHANGED auths
    /\ UNCHANGED appLoading
    /\ RenderList(c)
    /\ UNCHANGED appFrame

\* A click on the Sign Out button (shown with a user present, App loaded):
\* handleSignOut up to its await of signOut().
SignOutClick(c) ==
    /\ ~appLoading[c] /\ user[c] # Null
    /\ AuthsInFlight(c) < MaxLoads
    /\ auths' = [auths EXCEPT ![c] = @ (+) One(Auth("signOut", "signOut", Null))]
    /\ outcome' = NoOutcome
    /\ UNCHANGED <<user, isAdmin, appLoading, lastAuth>>
    /\ RenderList(c)
    /\ UNCHANGED appFrame

\* signOut() answers: an error (the catch's toast), or success: reset() and
\* the toast.
SignOutReply(c) ==
    /\ \E a \in BagToSet(auths[c]) :
        /\ a.at = "signOut"
        /\ auths' = [auths EXCEPT ![c] = @ (-) One(a)]
        /\ \/ /\ outcome' = <<c, ToastSignOutFailed>>
              /\ UNCHANGED <<user, isAdmin>>
           \/ /\ reset(c)
              /\ outcome' = <<c, ToastSignedOut>>
    /\ UNCHANGED <<appLoading, lastAuth>>
    /\ RenderList(c)
    /\ UNCHANGED appFrame

\* ---------------------------------------------------------------- Init

\* The client that is followed step by step; the others are not mounted here
\* and act through OtherInsert.
Main == "c1"

\* The PollList state right after mounting (the useState initial values, and
\* the effect's fetchPolls() awaiting its response) for the main client;
\* nothing mounted, nothing in flight and nobody signed in on the others.
Mounting ==
    /\ mounted = [c \in Clients |-> c = Main]
    /\ polls = [c \in Clients |-> {}]
    /\ loading = [c \in Clients |-> TRUE]
    /\ error = [c \in Clients |-> Null]
    /\ votingInProgress = [c \in Clients |-> Null]
    /\ fetches = [c \in Clients |->
                    IF c = Main THEN One(Fetch("sent", {}, FALSE)) ELSE EmptyBag]
    /\ subs = [c \in Clients |-> {}]
    /\ outcome = NoOutcome
    /\ served = [c \in Clients |-> {}]

\* App has finished initializing and none of its calls is in flight.
AppReady ==
    /\ appLoading = [c \in Clients |-> FALSE]
    /\ auths = [c \in Clients |-> EmptyBag]
    /\ lastAuth = [c \in Clients |-> Null]

\* The states of the main client's session store: a user with the
\* administrator flag set, a user without it, and no user with the flag in
\* either state.  PollList reads nothing else of the session, so which user
\* carries the flag makes no difference to it.
MainSessions == {<<"u1", TRUE>>, <<"u2", FALSE>>, <<Null, TRUE>>, <<Null, FALSE>>}

\* The session stores: any of these on the main client, signed out on the others.
Sessions ==
    { s \in [Clients -> (Users \cup {Null}) \X BOOLEAN] :
        /\ s[Main] \in MainSessions
        /\ \A c \in Clients \ {Main} : s[c] = <<Null, FALSE>> }

\* Two polls that stay open, an empty votes table, the main client just
\* mounted with any session.
Init ==
    /\ votes = {}
    /\ pollsTable = [p \in Polls |-> [ends_at |-> 1, is_active |-> TRUE]]
    /\ now = 0
    /\ \E s \in Sessions :
        /\ user = [c \in Clients |-> s[c][1]]
        /\ isAdmin = [c \in Clients |-> s[c][2]]
    /\ AppReady
    /\ Mounting

Next ==
    \/ \E c \in Clients : Notification(c)
    \/ \E c \in Clients : Unmount(c)
    \/ \E c \in Clients : Retry(c)
    \/ \E c \in Clients : BackendRead(c)
    \/ \E c \in Clients : FetchComplete(c)
    \/ \E c \in Clients, p \in Polls : \E o \in OptionsOf(p) : Click(c, p, o)
    \/ \E c \in Clients, p \in Polls : \E o \in OptionsOf(p) : CallSignedOut(c, p, o)
    \/ \E c \in Clients : VoteCheck(c)
    \/ \E c \in Clients : VoteInsert(c)
    \/ \E u \in Users, p \in Polls : \E o \in OptionsOf(p) : OtherInsert(u, p, o)

Spec == Init /\ [][Next]_vars

\* ---------------------------------------------------------------- SpecLive
\* Every backend request a vote submission awaits is answered in the end: its
\* existence check, its insert, and the composite read of its re-fetch, whose
\* response is then delivered.  The main client's own steps, without the
\* inserts of other client instances.

\* The backend serves the read of the re-fetch a submission awaits.
AwaitedRead(c) ==
    /\ BackendRead(c)
    /\ \E f \in BagToSet(fetches[c]) : f.awaited /\ f.st = "sent"
    /\ ~\E f \in BagToSet(fetches'[c]) : f.awaited /\ f.st = "sent"

\* The response of that re-fetch is delivered.
AwaitedComplete(c) ==
    /\ FetchComplete(c)
    /\ \E f \in BagToSet(fetches[c]) :
        f.awaited /\ fetches'[c] = fetches[c] (-) One(f)

Fairness ==
    \A c \in Clients :
        /\ WF_vars(VoteCheck(c))
        /\ WF_vars(VoteInsert(c))
        /\ WF_vars(AwaitedRead(c))
        /\ WF_vars(AwaitedComplete(c))

NextLive ==
    \/ \E c \in Clients : Notification(c)
    \/ \E c \in Clients : Unmount(c)
    \/ \E c \in Clients : Retry(c)
    \/ \E c \in Clients : BackendRead(c)
    \/ \E c \in Clients : FetchComplete(c)
    \/ \E c \in Clients, p \in Polls : \E o \in OptionsOf(p) : Click(c, p, o)
    \/ \E c \in Clients, p \in Polls : \E o \in OptionsOf(p) : CallSignedOut(c, p, o)
    \/ \E c \in Clients : VoteCheck(c)
    \/ \E c \in Clients : VoteInsert(c)

SpecLive == Init /\ [][NextLive]_vars /\ Fairness

\* ---------------------------------------------------------------- SpecRace
\* Two client instances of one user, both followed step by step: each mounts
\* its poll list, loads it, and votes.

InitRace ==
    /\ votes = {}
    /\ pollsTable = [p \in Polls |-> [ends_at |-> 1, is_active |-> TRUE]]
    /\ now = 0
    /\ user = [c \in Clients |-> "u1"]
    /\ isAdmin = [c \in Clients |-> FALSE]
    /\ mounted = [c \in Clients |-> TRUE]
    /\ polls = [c \in Clients |-> {}]
    /\ loading = [c \in Clients |-> TRUE]
    /\ error = [c \in Clients |-> Null]
    /\ votingInProgress = [c \in Clients |-> Null]
    /\ fetches = [c \in Clients |-> One(Fetch("sent", {}, FALSE))]
    /\ subs = [c \in Clients |-> {}]
    /\ outcome = NoOutcome
    /\ served = [c \in Clients |-> {}]
    /\ AppReady

NextRace ==
    \/ \E c \in Clients : BackendRead(c)
    \/ \E c \in Clients : FetchComplete(c)
    \/ \E c \in Clients, p \in Polls : \E o \in OptionsOf(p) : Click(c, p, o)
    \/ \E c \in Clients : VoteCheck(c)
    \/ \E c \in Clients : VoteInsert(c)

SpecRace == InitRace /\ [][NextRace]_vars

\* ---------------------------------------------------------------- SpecApp
\* App on the main client from its mount on: the session store signed out,
\* initializeAuth awaiting getSession, the poll list rendered by App when a
\* user is present.

InitApp ==
    /\ votes = {}
    /\ pollsTable = [p \in Polls |-> [ends_at |-> 1, is_active |-> TRUE]]
    /\ now = 0
    /\ user = [c \in Clients |-> Null]
    /\ isAdmin = [c \in Clients |-> FALSE]
    /\ mounted = [c \in Clients |-> FALSE]
    /\ polls = [c \in Clients |-> {}]
    /\ loading = [c \in Clients |-> TRUE]
    /\ error = [c \in Clients |-> Null]
    /\ votingInProgress = [c \in Clients |-> Null]
    /\ fetches = [c \in Clients |-> EmptyBag]
    /\ subs = [c \in Clients |-> {}]
    /\ outcome = NoOutcome
    /\ served = [c \in Clients |-> {}]
    /\ appLoading = [c \in Clients |-> c = Main]
    /\ auths = [c \in Clients |->
                  IF c = Main THEN One(Auth("init", "getSession", Null))
                              ELSE EmptyBag]
    /\ lastAuth = [c \in Clients |-> Null]

NextApp ==
    \/ SessionReply(Main)
    \/ ProfileReply(Main)
    \/ \E e \in AuthEvents : AuthEvent(Main, e[1], e[2])
    \/ SignOutClick(Main)
    \/ SignOutReply(Main)
    \/ \E c \in Clients : BackendRead(c)
    \/ \E c \in Clients : FetchComplete(c)
    \/ \E c \in Clients, p \in Polls : \E o \in OptionsOf(p) : Click(c, p, o)
    \/ \E c \in Clients : VoteCheck(c)
    \/ \E c \in Clients : VoteInsert(c)

SpecApp == InitApp /\ [][NextApp]_vars

\* ---------------------------------------------------------------- SpecOpen
\* The polls table holds any end times and active flags, the clock runs, and
\* the main client (signed in) loads and renders the list.

PollRows == [ends_at : 0 .. MaxTime + 1, is_active : BOOLEAN]

InitOpen ==
    /\ votes = {}
    /\ pollsTable \in [Polls -> PollRows]
    /\ now = 0
    /\ \E s \in Sessions :
        /\ s[Main][1] # Null
        /\ user = [c \in Clients |-> s[c][1]]
        /\ isAdmin = [c \in Clients |-> s[c][2]]
    /\ AppReady
    /\ Mounting

NextOpen ==
    \/ Tick
    \/ \E c \in Clients : BackendRead(c)
    \/ \E c \in Clients : FetchComplete(c)

SpecOpen == InitOpen /\ [][NextOpen]_vars

\* ---------------------------------------------------------------- claims

\* C1: a client never has more than one vote submission outstanding, and a
\* handleVote call made while one is outstanding returns silently without
\* issuing the existence check or the insert: the submissions, the marker and
\* the votes table stay as they are.
C1_SingleFlight ==
    /\ [](\A c \in Clients : Cardinality(subs[c]) <= 1)
    /\ [][\A c \in Clients :
            (subs[c] # {} /\ \E p \in Polls : \E o \in OptionsOf(p) : HandleVote(c, p, o))
            => /\ outcome' = <<c, Ignored>>
               /\ UNCHANGED <<votes, subs, votingInProgress>>]_vars

\* A call has just been turned away while a submission is outstanding.
C1_Witness == outcome = <<Main, Ignored>> /\ subs[Main] # {}

\* C2 as stated: a submission for a user who had a vote on the poll when the
\* call was made always ends with the "already voted" report.
C2_AlwaysAlready ==
    [][\A c \in Clients : \A a \in subs[c] :
        (a.had /\ a \notin subs'[c]) => outcome' = <<c, ToastAlready>>]_vars

\* C2 as amended: such a call never gets to the insert; it ends with "already
\* voted" or, when the existence check fails, with "vote failed", storing
\* nothing; and it returns silently when a submission is in flight.
C2_NeverInserts ==
    /\ [](\A c \in Clients : \A a \in subs[c] : a.had => a.pc = "check")
    /\ [][\A c \in Clients : \A a \in subs[c] :
            (a.had /\ a \notin subs'[c])
            => /\ outcome' \in {<<c, ToastAlready>>, <<c, ToastFailed>>}
               /\ votes' = votes]_vars
    /\ [][\A c \in Clients, p \in Polls : \A o \in OptionsOf(p) :
            (/\ user[c] # Null
             /\ Busy(c)
             /\ ExistingVotes(p, user[c]) # {}
             /\ HandleVote(c, p, o))
            => outcome' = <<c, Ignored>> /\ UNCHANGED <<votes, subs>>]_vars

\* A submission has just ended with "already voted".
C2_Witness == outcome = <<Main, ToastAlready>> /\ subs[Main] = {}

\* C3: the votes table never holds two votes of one user on one poll.
C3_OneVotePerPollUser ==
    \A p \in Polls, u \in Users : Cardinality(ExistingVotes(p, u)) <= 1

\* A submission passed its existence check, the same user's vote on the poll
\* was stored meanwhile, and the submission's insert is on its way.
C3_Witness ==
    \E a \in subs[Main] :
        a.pc = "insert" /\ ExistingVotes(a.poll_id, a.user_id) # {}

AllOptions == UNION {OptionsOf(p) : p \in Polls}

\* The users counted under option o in a fetched collection, and in a set of
\* vote rows.
VotersIn(ps, o) == UNION {q.options[o] : q \in {r \in ps : o \in DOMAIN r.options}}
VotersOf(rows, o) == {v.user_id : v \in {w \in rows : w.option_id = o}}

\* This step delivers the successful response of the re-fetch that submission
\* a of client c awaits.
RefetchDelivered(c, a) ==
    /\ a.pc = "refetch"
    /\ \E f \in BagToSet(fetches[c]) :
        f.awaited /\ f.st = "ok" /\ fetches'[c] = fetches[c] (-) One(f)

\* C4 as stated: once the re-fetch after a successful insert is delivered (no
\* other fetch being in flight), the voted option counts exactly one more than
\* the backend held before the insert and every other option counts the same.
C4_ExactlyOneMore ==
    [][\A c \in Clients : \A a \in subs[c] :
        (InFlight(c) = 1 /\ RefetchDelivered(c, a))
        => \A o \in AllOptions :
             Cardinality(VotersIn(polls'[c], o)) =
               Cardinality(VotersOf(a.pre, o)) + (IF o = a.option_id THEN 1 ELSE 0)]_vars

\* C4 as amended: the delivered re-fetch counts every vote stored before the
\* insert, counts the submission's vote under its option and under no other
\* option of the poll, and anything else it counts is a vote the backend
\* holds; with no other vote stored since the insert the voted option counts
\* exactly one more and every other option the same.
C4_RefetchReflectsVote ==
    [][\A c \in Clients : \A a \in subs[c] :
        RefetchDelivered(c, a)
        => /\ \A o \in AllOptions :
                /\ VotersOf(a.pre, o) \subseteq VotersIn(polls'[c], o)
                /\ VotersIn(polls'[c], o) \subseteq VotersOf(votes, o)
           /\ a.user_id \in VotersIn(polls'[c], a.option_id) \ VotersOf(a.pre, a.option_id)
           /\ \A o \in OptionsOf(a.poll_id) \ {a.option_id} :
                a.user_id \notin VotersIn(polls'[c], o)
           /\ Cardinality(votes) = Cardinality(a.pre) + 1
              => \A o \in AllOptions :
                   Cardinality(VotersIn(polls'[c], o)) =
                     Cardinality(VotersOf(a.pre, o))
                       + (IF o = a.option_id THEN 1 ELSE 0)]_vars

\* handleVote has returned after a successful re-fetch that shows the user's
\* own vote next to a vote another submission stored.
C4_Witness ==
    /\ outcome = <<Main, Returned>>
    /\ error[Main] = Null
    /\ \E poll \in polls[Main] : hasVoted(Main, poll)
    /\ \E v \in votes : v.user_id # user[Main]

\* C5: handleVote called with no user present reports "sign in required" and
\* changes nothing: no submission is issued, and the marker, the poll
\* collection, the fetches and the votes table stay as they are.
C5_SignInRequired ==
    /\ [](\A c \in Clients : \A a \in subs[c] : a.user_id # Null)
    /\ [][\A c \in Clients, p \in Polls : \A o \in OptionsOf(p) :
            (user[c] = Null /\ HandleVote(c, p, o))
            => /\ outcome' = <<c, ToastSignIn>>
               /\ UNCHANGED <<votes, subs, fetches, votingInProgress, polls,
                              loading, error>>]_vars

\* handleVote has just reported "sign in required" over a loaded collection.
C5_Witness == outcome = <<Main, ToastSignIn>> /\ polls[Main] # {}

\* C6: a fetched poll is open exactly when its end time is strictly later
\* than the clock and its active flag is set; a poll whose flag is unset or
\* whose end time is not in the future shows Ended and disabled buttons.
C6_IsOpen ==
    \A c \in Clients : \A poll \in polls[c] :
        /\ isPollActive(poll, now) <=> (now < poll.ends_at /\ poll.is_active = TRUE)
        /\ (poll.is_active = FALSE \/ poll.ends_at <= now)
           => Badge(c, poll) = "Ended" /\ Disabled(c, poll)

\* A fetched poll with the active flag set ends exactly now, and another one
\* ends later with the flag unset.
C6_Witness ==
    /\ \E poll \in polls[Main] : poll.is_active /\ poll.ends_at = now
    /\ \E poll \in polls[Main] : ~poll.is_active /\ poll.ends_at > now

\* C7: an option button is enabled only with a user present who has not voted
\* on the poll (by the fetched data), the poll open, and no vote submission
\* in flight in the client.
C7_EnabledOnlyWhenIdle ==
    \A c \in Clients : \A poll \in polls[c] :
        ButtonEnabled(c, poll)
        => /\ user[c] # Null
           /\ \A o \in DOMAIN poll.options : user[c] \notin poll.options[o]
           /\ poll.ends_at > now /\ poll.is_active
           /\ votingInProgress[c] = Null /\ subs[c] = {}

\* C8: tallies and chart of a poll are on the screen only for a viewer whose
\* administrator flag is set or who has a vote on that poll; with no user
\* present no tally and no chart is on the screen, every button is disabled,
\* and no submission is ever in flight.
C8_TalliesHidden ==
    \A c \in Clients :
        /\ user[c] = Null => subs[c] = {}
        /\ \A poll \in polls[c] :
            /\ (ShowsCounts(c, poll) \/ ShowsChart(c, poll))
               => (isAdmin[c] \/ ExistingVotes(poll.id, user[c]) # {})
            /\ user[c] = Null
               => /\ ~ShowsCounts(c, poll) /\ ~ShowsChart(c, poll)
                  /\ Disabled(c, poll) /\ ~ButtonEnabled(c, poll)

\* A viewer without the administrator flag sees the tally of the poll voted
\* on and not that of the other poll, which has votes.
C8_Witness ==
    /\ ~isAdmin[Main]
    /\ \E poll \in polls[Main] : ShowsCounts(Main, poll) /\ ShowsChart(Main, poll)
    /\ \E poll \in polls[Main] :
        /\ ShowsPoll(Main, poll) /\ ~ShowsCounts(Main, poll)
        /\ \E o \in DOMAIN poll.options : poll.options[o] # {}

\* C9: while the error state is set no poll card is on the screen, and a
\* signed-in client shows the error panel.
C9_ErrorHidesData ==
    \A c \in Clients :
        error[c] # Null
        => /\ \A poll \in polls[c] : ~ShowsPoll(c, poll)
           /\ (mounted[c] /\ user[c] # Null) => View(c) = "error"

\* The error panel is shown over a collection fetched earlier.
C9_Witness == View(Main) = "error" /\ polls[Main] # {}

\* C10: a submission that ends with "vote failed" stores no vote, leaves the
\* poll collection and the fetches as they are and clears the marker, so that
\* the next call is not turned away.
C10_FailureLeavesNoTrace ==
    /\ [][\A c \in Clients :
            (outcome' = <<c, ToastFailed>> /\ subs'[c] # subs[c])
            => /\ votes' = votes
               /\ polls'[c] = polls[c] /\ fetches'[c] = fetches[c]
               /\ loading'[c] = loading[c] /\ error'[c] = error[c]
               /\ votingInProgress'[c] = Null]_vars
    /\ [](\A c \in Clients :
            outcome = <<c, ToastFailed>> => (subs[c] = {} /\ ~Busy(c)))

\* A submission has just failed while the backend holds a vote of its user.
C10_Witness ==
    /\ outcome = <<Main, ToastFailed>>
    /\ \E v \in votes : v.user_id = user[Main]

\* C13: a change notification that reaches a mounted poll list starts one
\* fetchPolls call (loading set, one more request in flight); one raised after
\* the unmount starts nothing, and an unmounted client issues no request
\* other than the re-fetch a vote submission still in flight awaits.
C13_NotificationsFetch ==
    /\ [][\A c \in Clients :
            Notification(c)
            => IF mounted[c]
               THEN /\ fetches'[c] = fetches[c] (+) One(Fetch("sent", {}, FALSE))
                    /\ loading'[c] /\ error'[c] = Null
               ELSE UNCHANGED <<fetches, loading, error, polls>>]_vars
    /\ [][\A c \in Clients :
            ~mounted[c]
            => \A f \in BagToSet(fetches'[c]) :
                 (f.st = "sent" /\ ~f.awaited)
                 => CopiesIn(f, fetches'[c]) <= CopiesIn(f, fetches[c])]_vars

\* The list was loaded, a notification (or a retry) started a fetch, and the
\* component was unmounted with that request still in flight.
C13_Witness ==
    /\ ~mounted[Main]
    /\ polls[Main] # {}
    /\ \E f \in BagToSet(fetches[Main]) : ~f.awaited

\* Two records of one handleVote call.
SameCall(a, b) ==
    /\ a.poll_id = b.poll_id
    /\ a.option_id = b.option_id
    /\ a.user_id = b.user_id

\* C14: a submission starts at its existence check; its insert is issued only
\* in the step in which that check answers, without error, that the backend
\* holds no vote of the user on the poll; and a vote is stored for a
\* submission only by its own insert, issued that way.
C14_CheckBeforeInsert ==
    [][\A c \in Clients :
        /\ \A a \in subs'[c] \ subs[c] :
            /\ a.pc = "check" => subs[c] = {}
            /\ a.pc = "insert"
               => /\ \E b \in subs[c] : SameCall(a, b) /\ b.pc = "check"
                  /\ ExistingVotes(a.poll_id, a.user_id) = {}
                  /\ outcome' = NoOutcome
                  /\ votes' = votes
            /\ a.pc = "refetch"
               => /\ \E b \in subs[c] : SameCall(a, b) /\ b.pc = "insert"
                  /\ votes' = votes \cup {[poll_id |-> a.poll_id,
                                           option_id |-> a.option_id,
                                           user_id |-> a.user_id]}
        /\ outcome' = <<c, ToastSuccess>>
           => \E b \in subs[c] : b.pc = "insert"]_vars

\* A submission's insert is on its way, its check having found no vote of the
\* user on the poll among the votes the backend holds.
C14_Witness ==
    \E a \in subs[Main] :
        /\ a.pc = "insert"
        /\ votes # {}
        /\ ExistingVotes(a.poll_id, a.user_id) = {}

\* C15: a marker that is set is cleared in the end, whichever way the
\* submission goes, and it is never set with no submission in flight.
C15_MarkerCleared ==
    /\ [](\A c \in Clients : subs[c] = {} => votingInProgress[c] = Null)
    /\ \A c \in Clients :
        (votingInProgress[c] # Null) ~> (votingInProgress[c] = Null)

\* handleVote has returned with the marker cleared after its vote was stored
\* and its re-fetch failed.
C15_Witness ==
    /\ outcome = <<Main, Returned>>
    /\ error[Main] = ErrorText
    /\ votingInProgress[Main] = Null
    /\ ExistingVotes("p1", user[Main]) # {}

\* C16: two client instances of one user can both have their insert on its
\* way for the same poll, each after a check that found no vote; an insert
\* that reaches the backend when it holds a vote of that user on that poll
\* stores nothing and ends with "vote failed", so that the table never holds
\* two votes of the user on the poll.
C16_RaceStoppedByConstraint ==
    /\ [][\A c \in Clients : \A a \in subs[c] :
            (/\ a.pc = "insert"
             /\ ExistingVotes(a.poll_id, a.user_id) # {}
             /\ a \notin subs'[c])
            => /\ votes' = votes
               /\ outcome' = <<c, ToastFailed>>
               /\ votingInProgress'[c] = Null]_vars
    /\ [](\A v \in votes, w \in votes :
            (v.poll_id = w.poll_id /\ v.user_id = w.user_id) => v = w)

\* Both clients' checks have found no vote and both inserts are on their way,
\* for the same user and poll, with no vote of that user on the poll stored.
C16_Witness ==
    \E a \in subs["c1"], b \in subs["c2"] :
        /\ a.pc = "insert" /\ b.pc = "insert"
        /\ a.poll_id = b.poll_id /\ a.user_id = b.user_id
        /\ a.option_id # b.option_id
        /\ ExistingVotes(a.poll_id, a.user_id) = {}

\* C17: once every fetchPolls call of a client has completed, without the
\* error state set, the poll collection is the result of the latest read the
\* backend answered for that client.
C17_LatestReadShown ==
    \A c \in Clients :
        (mounted[c] /\ InFlight(c) = 0 /\ error[c] = Null)
        => polls[c] = served[c]

\* C18: the loading flag is set in every state in which a fetchPolls request
\* of the client is in flight.
C18_LoadingWhileInFlight ==
    \A c \in Clients : (mounted[c] /\ InFlight(c) > 0) => loading[c]

\* C11: while the last thing App was told about the session is a sign-out
\* event, the store is signed out: no user, the administrator flag unset.
C11_SignedOutStays ==
    \A c \in Clients :
        lastAuth[c] = "SIGNED_OUT" => (user[c] = Null /\ ~isAdmin[c])

\* C12: a failed session retrieval or profile load leaves the store signed
\* out and raises a warning toast, and ends initialization with loading
\* false when it is initialization that failed; App's loading flag is set
\* exactly while initializeAuth is in flight, and once false stays false.
C12_FailureResets ==
    /\ [][\A c \in Clients : \A a \in BagToSet(auths[c]) :
            (SessionFailed(c, a) \/ ProfileFailed(c, a))
            => /\ user'[c] = Null /\ ~isAdmin'[c]
               /\ outcome' = <<c, IF a.op = "init" THEN ToastInitFailed
                                                   ELSE ToastProfileFailed>>
               /\ a.op = "init" => ~appLoading'[c]]_vars
    /\ [](\A c \in Clients :
            appLoading[c] <=> \E a \in BagToSet(auths[c]) : a.op = "init")
    /\ [][\A c \in Clients : ~appLoading[c] => ~appLoading'[c]]_vars

\* A profile load started by an auth event has just failed, after the poll
\* list had been shown and loaded: signed out again, the list unmounted.
C12_Witness ==
    /\ outcome = <<Main, ToastProfileFailed>>
    /\ user[Main] = Null /\ ~isAdmin[Main]
    /\ ~mounted[Main] /\ polls[Main] # {}

\* C19: the administrator flag is set only with a user present whose profile
\* carries it.
C19_AdminOnlyForUser ==
    \A c \in Clients :
        isAdmin[c] => (user[c] # Null /\ ProfileIsAdmin(user[c]))

\* C20: a client's poll collection changes only when a successful fetchPolls
\* response is delivered, to that response's rows (or when App renders a new
\* poll list, which starts empty); its session changes only in a step of
\* initializeAuth, of the auth callback or of handleSignOut; a step of
\* handleVote leaves the collection and the session as they are; a step of
\* fetchPolls leaves the session as it is, and the marker too unless the
\* step ends the handleVote call that awaited it.
C20_Frame ==
    [][\A c \in Clients :
        /\ polls'[c] # polls[c]
           => \/ \E f \in BagToSet(fetches[c]) :
                   /\ f.st = "ok" /\ polls'[c] = f.data
                   /\ CopiesIn(f, fetches'[c]) < CopiesIn(f, fetches[c])
              \/ ~mounted[c] /\ mounted'[c] /\ polls'[c] = {}
        /\ (user'[c] # user[c] \/ isAdmin'[c] # isAdmin[c])
           => \/ SessionReply(c) \/ ProfileReply(c) \/ SignOutReply(c)
              \/ \E e \in AuthEvents : AuthEvent(c, e[1], e[2])
        /\ (\/ \E p \in Polls : \E o \in OptionsOf(p) : HandleVote(c, p, o)
            \/ VoteCheck(c) \/ VoteInsert(c))
           => /\ polls'[c] = polls[c]
              /\ user'[c] = user[c] /\ isAdmin'[c] = isAdmin[c]
        /\ (BackendRead(c) \/ FetchComplete(c))
           => /\ user'[c] = user[c] /\ isAdmin'[c] = isAdmin[c]
              /\ votingInProgress'[c] # votingInProgress[c]
                 => \E a \in subs[c] : a.pc = "refetch" /\ a \notin subs'[c]]_vars

\* handleVote has returned after its re-fetch replaced the collection, the
\* session having been refreshed by an auth event and its profile loaded.
C20_Witness ==
    /\ outcome = <<Main, Returned>>
    /\ lastAuth[Main] = "TOKEN_REFRESHED"
    /\ isAdmin[Main]
    /\ \E poll \in polls[Main] : hasVoted(Main, poll)

====
